---- MODULE Spec2Model ----
(***************************************************************************)
(* The request lifecycle tracker (utils/request_manager.py) and the two    *)
(* orchestrator entry points of app.py, process_image and save_feedback,   *)
(* run by concurrent handler threads (gradio runs each click handler in a  *)
(* worker thread, and each handler drives its coroutine with asyncio.run). *)
(* The tracker takes no lock, so one step of the model is one statement    *)
(* that touches shared state: one dict store, one file operation, one      *)
(* remote call.                                                            *)
(*                                                                         *)
(* Python values: None is the empty tuple, a str is a non-empty tuple of   *)
(* its pieces (<<"">> is the empty str), a bool b is <<"bool", b>>.  A     *)
(* request id is an integer code of the uuid string; 0 codes the empty     *)
(* string.                                                                 *)
(***************************************************************************)
EXTENDS Integers, Sequences, FiniteSets, TLC

VARIABLES
    requests,   \* RequestManager.requests: id -> record
    disk,       \* the local filesystem under TEMP_DIR: path -> image content
    bucket,     \* the remote bucket: object name -> body
    pc,         \* per handler thread: the statement it is about to run
    loc,        \* per handler thread: the local variables of its invocation
    budget,     \* number of handler invocations that may still start
    submitted,  \* history: id -> the image given to the call that created it
    metaSaved,  \* history: ids for which a save_metadata call has succeeded
    removeCount \* history: id -> number of os.remove calls that deleted its file

vars == <<requests, disk, bucket, pc, loc, budget, submitted, metaSaved,
          removeCount>>

----------------------------------------------------------------------------
(* Bounds *)

\* Handler invocations started in one behaviour
MaxCalls == 3
\* Direct calls of the tracker's operations in a behaviour of the tracker alone
ApiCalls == 5

\* Two worker threads: every race the tracker can lose is between two handlers
Threads == {1, 2}

(* Input domains *)
Images == {"imgA", "imgB"}
\* The reviewer's clicks: (approved, note) as the two buttons send them
Feedbacks == {<<TRUE, <<"looks good">>>>, <<FALSE, <<"">>>>}
\* datetime.now() at second resolution: two calls can read the same second
Timestamps == {"20250101_120000"}
EmptyId == 0
UnknownId == -1

None == <<>>
EmptyStr == <<"">>
Bool(b) == <<"bool", b>>
\* A request id as the str a handler returns
IdStr(request_id) == <<request_id>>
IsBool(v) == Len(v) = 2 /\ v[1] = "bool"

Falsy(v) == v = None \/ v = EmptyStr

----------------------------------------------------------------------------
(* User-facing messages *)

MsgNoImage == "Please upload an image or take a photo."
MsgUploadFailed == "Failed to upload image to cloud storage."
MsgAnalyzeFailed == "Failed to analyze image."
MsgNoActive == "No active request. Please upload an image first."
MsgInvalidId == "Invalid request ID."
MsgSaveFailed == "Failed to save feedback to cloud storage."
MsgThanksApproved == "Thank you for your feedback!"
MsgThanksRejected == "Thank you for your feedback. We'll improve our descriptions."

----------------------------------------------------------------------------
(* Pure helpers *)

\* Mutant: the file name leaves the request id out
NewFilename_NoId(timestamp, request_id) == <<timestamp, 0, "jpg">>

\* f"{timestamp}_{request_id}.jpg"
NewFilename(timestamp, request_id) == <<timestamp, request_id, "jpg">>

\* TEMP_DIR / new_filename
TempPathOf(new_filename) == <<"temp">> \o new_filename

\* Python's str() inside an f-string: None formats as "None"
FormatStr(v) == IF v = None THEN <<"None">> ELSE v

\* f"{object_name}.metadata.json"
MetadataObjectName(object_name) == FormatStr(object_name) \o <<"metadata.json">>

\* upload_image: the object name defaults to the file's basename
UploadObjectName(file_path, object_name) ==
    IF Falsy(object_name) THEN Tail(file_path) ELSE object_name

\* json.dumps of one value: None -> null, bool -> true/false, str -> string
JsonValue(v) ==
    IF v = None THEN [type |-> "null"]
    ELSE IF IsBool(v) THEN [type |-> "boolean", value |-> v[2]]
    ELSE [type |-> "string", value |-> v]

\* json.dumps(metadata)
JsonDumps(metadata) == [k \in DOMAIN metadata |-> JsonValue(metadata[k])]

\* The text the description service produces for an image
DescriptionOf(image) == <<"description of", image>>

\* The record create_request stores
NewRequest ==
    [status |-> "created", temp_path |-> None, cloud_path |-> None,
     llm_description |-> None, user_feedback |-> None, user_note |-> None]

\* Mutant: the id generator repeats itself
FreshId_Repeats == IF DOMAIN requests = {} THEN 1 ELSE Cardinality(DOMAIN requests)

\* str(uuid.uuid4()): an id the tracker has not issued before
FreshId == Cardinality(DOMAIN requests) + 1

\* The locals of a thread that runs nothing; seen records what the fields of
\* the dict were when get_request handed it to save_feedback
IdleLoc ==
    [kind |-> "none", request_id |-> EmptyId, image |-> None,
     new_filename |-> None, temp_path |-> None, object_name |-> None,
     description |-> None, approved |-> None, note |-> None,
     metadata |-> None, kwargs |-> <<>>, applied |-> 0, ret |-> "none",
     success |-> None, cleanRet |-> None, result |-> None, seen |-> None,
     nUpload |-> 0, nDescribe |-> 0, nMeta |-> 0, nRemove |-> 0]

----------------------------------------------------------------------------
Start(n) ==
    /\ requests = <<>>
    /\ disk = <<>>
    /\ bucket = <<>>
    /\ pc = [t \in Threads |-> "idle"]
    /\ loc = [t \in Threads |-> IdleLoc]
    /\ budget = n
    /\ submitted = <<>>
    /\ metaSaved = {}
    /\ removeCount = <<>>

Init == Start(MaxCalls)

\* A handler invocation starts on a free worker thread; the workers are
\* interchangeable, so the lowest free one takes it.
Free(t) == pc[t] \in {"idle", "done", "raised"}
CanStart(t) ==
    /\ budget > 0
    /\ Free(t)
    /\ \A u \in Threads : Free(u) => t <= u

\* A handler returns: its frame is dropped; the arguments, the result and the
\* call counts stay for the caller
Returned(l, result) ==
    [IdleLoc EXCEPT !.kind = l.kind, !.request_id = l.request_id,
                    !.approved = l.approved, !.note = l.note,
                    !.nUpload = l.nUpload, !.nDescribe = l.nDescribe,
                    !.nMeta = l.nMeta, !.nRemove = l.nRemove,
                    !.cleanRet = l.cleanRet, !.result = result]

Return(t, l, result) ==
    /\ pc' = [pc EXCEPT ![t] = "done"]
    /\ loc' = [loc EXCEPT ![t] = Returned(l, result)]

\* An exception leaves the handler
Raise(t, l, what) ==
    /\ pc' = [pc EXCEPT ![t] = "raised"]
    /\ loc' = [loc EXCEPT ![t] = Returned(l, <<"exception", what>>)]

\* Another thread is between two stores of update_request's kwargs loop on id
MidUpdate(t, id) ==
    \E u \in Threads \ {t} :
        /\ pc[u] = "update_request"
        /\ loc[u].request_id = id
        /\ loc[u].applied > 0

----------------------------------------------------------------------------
(* RequestManager.update_request *)

\* Mutant: the store rebuilds the record from its defaults
StoreField_Rebuilds(reqs, request_id, key, value) ==
    [reqs EXCEPT ![request_id] = [NewRequest EXCEPT ![key] = value]]

\* One store of the kwargs loop: self.requests[request_id][key] = value
StoreField(reqs, request_id, key, value) ==
    [reqs EXCEPT ![request_id][key] = value]

\* The call: the membership test, then the loop (run by UpdateRequestStep)
UpdateCall(t, l, request_id, kwargs, ret) ==
    /\ loc' = [loc EXCEPT ![t] =
                 [l EXCEPT !.kwargs = kwargs, !.applied = 0, !.ret = ret]]
    /\ pc' = [pc EXCEPT ![t] =
                 IF request_id \in DOMAIN requests /\ kwargs # <<>>
                 THEN "update_request" ELSE ret]

UpdateRequestStep(t) ==
    /\ pc[t] = "update_request"
    /\ LET l == loc[t]
           kv == Head(l.kwargs)
       IN /\ requests' = StoreField(requests, l.request_id, kv[1], kv[2])
          /\ loc' = [loc EXCEPT ![t].kwargs = Tail(l.kwargs),
                                ![t].applied = l.applied + 1]
          /\ pc' = [pc EXCEPT ![t] =
                       IF Tail(l.kwargs) = <<>> THEN l.ret ELSE "update_request"]
    /\ UNCHANGED <<disk, bucket, budget, submitted, metaSaved, removeCount>>

----------------------------------------------------------------------------
(* app.process_image *)

\* kwargs of the three update_request calls of process_image
ImageReceivedKwargs(temp_path) ==
    << <<"status", "image_received">>, <<"temp_path", temp_path>> >>

UploadedKwargs(object_name) ==
    << <<"status", "uploaded_to_cloud">>, <<"cloud_path", object_name>> >>

\* Mutant: the description is not stored with the status
AnalyzedKwargs_StatusOnly(description) ==
    << <<"status", "analyzed">> >>

AnalyzedKwargs(description) ==
    << <<"status", "analyzed">>, <<"llm_description", description>> >>

\* image is None: nothing is created
ProcessImageNoImage(t) ==
    /\ CanStart(t)
    /\ budget' = budget - 1
    /\ Return(t, [IdleLoc EXCEPT !.kind = "process_image"], <<None, <<MsgNoImage>>>>)
    /\ UNCHANGED <<requests, disk, bucket, submitted, metaSaved, removeCount>>

\* The images a submission can carry.  Images are opaque and interchangeable,
\* so the first submission of a behaviour is taken to carry imgA.
SubmittableImages == IF DOMAIN requests = {} THEN {"imgA"} ELSE Images

\* create_request, then the file name from the clock and the id
ProcessImageCreate(t) ==
    /\ CanStart(t)
    /\ budget' = budget - 1
    /\ \E image \in SubmittableImages, timestamp \in Timestamps :
       LET request_id == FreshId
           new_filename == NewFilename(timestamp, request_id)
       IN /\ requests' = (request_id :> NewRequest) @@ requests
          /\ submitted' = (request_id :> image) @@ submitted
          /\ removeCount' = (request_id :> 0) @@ removeCount
          /\ loc' = [loc EXCEPT ![t] =
                       [IdleLoc EXCEPT !.kind = "process_image",
                                       !.request_id = request_id,
                                       !.image = image,
                                       !.new_filename = new_filename,
                                       !.temp_path = TempPathOf(new_filename)]]
    /\ pc' = [pc EXCEPT ![t] = "pi_save"]
    /\ UNCHANGED <<disk, bucket, metaSaved>>

\* image.save(str(temp_path)) succeeds, then update_request is entered
ProcessImageSaveImage(t) ==
    /\ pc[t] = "pi_save"
    /\ disk' = (loc[t].temp_path :> loc[t].image) @@ disk
    /\ UpdateCall(t, loc[t], loc[t].request_id,
                  ImageReceivedKwargs(loc[t].temp_path), "pi_upload")
    /\ UNCHANGED <<requests, bucket, budget, submitted, metaSaved, removeCount>>

\* image.save raises: nothing in process_image catches it
ProcessImageSaveImageRaises(t) ==
    /\ pc[t] = "pi_save"
    /\ Raise(t, loc[t], "image.save")
    /\ UNCHANGED <<requests, disk, bucket, budget, submitted, metaSaved, removeCount>>

\* upload_image reads the file and put_object succeeds
ProcessImageUpload(t) ==
    /\ pc[t] = "pi_upload"
    /\ loc[t].temp_path \in DOMAIN disk
    /\ LET l == loc[t]
           object_name == UploadObjectName(l.temp_path, l.new_filename)
       IN /\ bucket' = (object_name :> disk[l.temp_path]) @@ bucket
          /\ UpdateCall(t, [l EXCEPT !.object_name = object_name,
                                     !.nUpload = l.nUpload + 1],
                        l.request_id, UploadedKwargs(object_name), "pi_analyze")
    /\ UNCHANGED <<requests, disk, budget, submitted, metaSaved, removeCount>>

\* Mutant: a failed upload is tried again
ProcessImageUploadFails_Retries(t) ==
    /\ pc[t] = "pi_upload"
    /\ loc[t].nUpload < 2
    /\ loc' = [loc EXCEPT ![t].nUpload = loc[t].nUpload + 1]
    /\ UNCHANGED <<pc, requests, disk, bucket, budget, submitted, metaSaved, removeCount>>

\* upload_image fails (file unreadable or put_object raises) and returns None
ProcessImageUploadFails(t) ==
    /\ pc[t] = "pi_upload"
    /\ Return(t, [loc[t] EXCEPT !.nUpload = loc[t].nUpload + 1],
              <<None, <<MsgUploadFailed>>>>)
    /\ UNCHANGED <<requests, disk, bucket, budget, submitted, metaSaved, removeCount>>

\* What analyze_image returns for a response: the output field of a 200
\* response, '' when the field is absent, None for any other status
AnalyzeResult(response, image) ==
    CASE response = "ok" -> DescriptionOf(image)
      [] response = "no_output" -> EmptyStr
      [] OTHER -> None

Responses == {"ok", "no_output", "error"}

\* analyze_image opens the file and posts it; process_image tests the result
ProcessImageAnalyze(t) ==
    /\ pc[t] = "pi_analyze"
    /\ \E response \in Responses :
       LET l == loc[t]
           description ==
               IF l.temp_path \in DOMAIN disk
               THEN AnalyzeResult(response, disk[l.temp_path])
               ELSE None
           l2 == [l EXCEPT !.nDescribe = l.nDescribe + 1]
       IN IF Falsy(description)
          THEN Return(t, l2, <<None, <<MsgAnalyzeFailed>>>>)
          ELSE UpdateCall(t, [l2 EXCEPT !.description = description],
                          l.request_id, AnalyzedKwargs(description), "pi_return")
    /\ UNCHANGED <<requests, disk, bucket, budget, submitted, metaSaved, removeCount>>

\* return request_id, description
ProcessImageReturn(t) ==
    /\ pc[t] = "pi_return"
    /\ Return(t, loc[t], <<IdStr(loc[t].request_id), loc[t].description>>)
    /\ UNCHANGED <<requests, disk, bucket, budget, submitted, metaSaved, removeCount>>

----------------------------------------------------------------------------
(* RequestManager.clean_temp_file, called by save_feedback or directly *)

\* Where a clean_temp_file call returns to, with its return value
CleanReturn(t, l, value) ==
    IF l.kind = "save_feedback"
    THEN UpdateCall(t, [l EXCEPT !.cleanRet = value], l.request_id,
                    << <<"status", "completed">> >>, "sf_return")
    ELSE Return(t, [l EXCEPT !.cleanRet = value], value)

\* Mutant: os.remove is called without asking os.path.exists first
CleanDecision_NoExistsTest(reqs, files, request_id) ==
    IF request_id \notin DOMAIN reqs \/ Falsy(reqs[request_id].temp_path)
    THEN Bool(FALSE)
    ELSE <<"remove">>

\* The value clean_temp_file returns without touching the file, or "remove"
\* when os.path.exists answered True and os.remove is to be called
CleanDecision(reqs, files, request_id) ==
    IF request_id \notin DOMAIN reqs \/ Falsy(reqs[request_id].temp_path)
    THEN Bool(FALSE)
    ELSE IF reqs[request_id].temp_path \in DOMAIN files
         THEN <<"remove">>
         ELSE Bool(TRUE)

\* A direct call of the tracker's clean_temp_file(request_id)
CleanTempFileCall(t) ==
    /\ CanStart(t)
    /\ budget' = budget - 1
    /\ \E request_id \in {UnknownId} \cup DOMAIN requests :
          loc' = [loc EXCEPT ![t] =
                    [IdleLoc EXCEPT !.kind = "clean_temp_file",
                                    !.request_id = request_id]]
    /\ pc' = [pc EXCEPT ![t] = "clean_temp_file"]
    /\ UNCHANGED <<requests, disk, bucket, submitted, metaSaved, removeCount>>

\* get_request, the temp_path test and os.path.exists
CleanTempFileCheck(t) ==
    /\ pc[t] = "clean_temp_file"
    /\ LET l == loc[t]
           d == CleanDecision(requests, disk, l.request_id)
       IN IF d = <<"remove">>
          THEN /\ pc' = [pc EXCEPT ![t] = "os_remove"]
               /\ loc' = [loc EXCEPT ![t].temp_path = requests[l.request_id].temp_path]
          ELSE CleanReturn(t, l, d)
    /\ UNCHANGED <<requests, disk, bucket, budget, submitted, metaSaved, removeCount>>

\* os.remove deletes the file
CleanTempFileRemove(t) ==
    /\ pc[t] = "os_remove"
    /\ loc[t].temp_path \in DOMAIN disk
    /\ disk' = [p \in DOMAIN disk \ {loc[t].temp_path} |-> disk[p]]
    /\ removeCount' = [removeCount EXCEPT ![loc[t].request_id] = @ + 1]
    /\ CleanReturn(t, [loc[t] EXCEPT !.nRemove = loc[t].nRemove + 1], Bool(TRUE))
    /\ UNCHANGED <<requests, bucket, budget, submitted, metaSaved>>

\* os.remove raises (the file is gone by now, or the OS refuses): the
\* except branch logs and returns False
CleanTempFileRemoveRaises(t) ==
    /\ pc[t] = "os_remove"
    /\ CleanReturn(t, [loc[t] EXCEPT !.nRemove = loc[t].nRemove + 1], Bool(FALSE))
    /\ UNCHANGED <<requests, disk, bucket, budget, submitted, metaSaved, removeCount>>

----------------------------------------------------------------------------
(* app.save_feedback *)

\* Mutant: the note is also stored as the description
FeedbackKwargs_WritesDescription(approved, note) ==
    << <<"status", "feedback_received">>,
       <<"user_feedback", approved>>,
       <<"user_note", note>>,
       <<"llm_description", note>> >>

\* kwargs of save_feedback's first update_request call
FeedbackKwargs(approved, note) ==
    << <<"status", "feedback_received">>,
       <<"user_feedback", approved>>,
       <<"user_note", note>> >>

\* The ids a caller can pass: the empty string, an id the tracker never
\* issued, or the id of any record of the tracker
CallerIds == {EmptyId, UnknownId} \cup DOMAIN requests

\* Mutant: the lookup of an unknown id leaves a default record behind
SaveFeedbackReject_CreatesRecord(t) ==
    /\ CanStart(t)
    /\ budget' = budget - 1
    /\ \E request_id \in CallerIds, fb \in Feedbacks :
          /\ request_id = EmptyId \/ request_id \notin DOMAIN requests
          /\ requests' = IF request_id = EmptyId THEN requests
                         ELSE (request_id :> NewRequest) @@ requests
          /\ Return(t, [IdleLoc EXCEPT !.kind = "save_feedback",
                                       !.request_id = request_id,
                                       !.approved = Bool(fb[1]), !.note = fb[2]],
                    IF request_id = EmptyId THEN <<MsgNoActive>> ELSE <<MsgInvalidId>>)
    /\ UNCHANGED <<disk, bucket, submitted, metaSaved, removeCount>>

\* not request_id, or get_request returns None: a message and nothing else
SaveFeedbackReject(t) ==
    /\ CanStart(t)
    /\ budget' = budget - 1
    /\ \E request_id \in CallerIds, fb \in Feedbacks :
          /\ request_id = EmptyId \/ request_id \notin DOMAIN requests
          /\ Return(t, [IdleLoc EXCEPT !.kind = "save_feedback",
                                       !.request_id = request_id,
                                       !.approved = Bool(fb[1]), !.note = fb[2]],
                    IF request_id = EmptyId THEN <<MsgNoActive>> ELSE <<MsgInvalidId>>)
    /\ UNCHANGED <<requests, disk, bucket, submitted, metaSaved, removeCount>>

\* request = get_request(request_id) finds the record; update_request is
\* entered. With track, the fields the dict had at that moment are kept in
\* seen, to compare with what the handler reads from it later.
SaveFeedbackEnter(t, track) ==
    /\ CanStart(t)
    /\ budget' = budget - 1
    /\ \E request_id \in CallerIds, fb \in Feedbacks :
          /\ request_id # EmptyId
          /\ request_id \in DOMAIN requests
          /\ UpdateCall(t, [IdleLoc EXCEPT !.kind = "save_feedback",
                                           !.request_id = request_id,
                                           !.seen = IF track THEN requests[request_id]
                                                            ELSE None,
                                           !.approved = Bool(fb[1]), !.note = fb[2]],
                        request_id, FeedbackKwargs(Bool(fb[1]), fb[2]), "sf_metadata")
    /\ UNCHANGED <<requests, disk, bucket, submitted, metaSaved, removeCount>>

SaveFeedbackStart(t) == SaveFeedbackEnter(t, FALSE)

SaveFeedbackStartSeen(t) == SaveFeedbackEnter(t, TRUE)

\* The metadata dict; request is the tracker's own dict, read now
BuildMetadata(request, timestamp, approved, note) ==
    [timestamp |-> <<timestamp>>,
     description |-> request.llm_description,
     approved |-> approved,
     note |-> note]

SaveFeedbackBuildMetadata(t) ==
    /\ pc[t] = "sf_metadata"
    /\ \E timestamp \in Timestamps :
          loc' = [loc EXCEPT ![t].metadata =
                    BuildMetadata(requests[loc[t].request_id], timestamp,
                                  loc[t].approved, loc[t].note)]
    /\ pc' = [pc EXCEPT ![t] = "sf_save"]
    /\ UNCHANGED <<requests, disk, bucket, budget, submitted, metaSaved, removeCount>>

\* save_metadata(request['cloud_path'], metadata) succeeds
SaveFeedbackSaveMetadata(t) ==
    /\ pc[t] = "sf_save"
    /\ LET l == loc[t]
           object_name == requests[l.request_id].cloud_path
       IN /\ bucket' = (MetadataObjectName(object_name) :> JsonDumps(l.metadata)) @@ bucket
          /\ metaSaved' = metaSaved \cup {l.request_id}
          /\ loc' = [loc EXCEPT ![t].object_name = object_name,
                                ![t].success = Bool(TRUE),
                                ![t].nMeta = l.nMeta + 1]
    /\ pc' = [pc EXCEPT ![t] = "clean_temp_file"]
    /\ UNCHANGED <<requests, disk, budget, submitted, removeCount>>

\* Mutant: the failed write is ignored and the handler goes on to clean up
SaveFeedbackSaveMetadataFails_GoesOn(t) ==
    /\ pc[t] = "sf_save"
    /\ loc' = [loc EXCEPT ![t].success = Bool(FALSE),
                          ![t].nMeta = loc[t].nMeta + 1]
    /\ pc' = [pc EXCEPT ![t] = "clean_temp_file"]
    /\ UNCHANGED <<requests, disk, bucket, budget, submitted, metaSaved, removeCount>>

\* put_object raises inside save_metadata: False, and save_feedback returns
SaveFeedbackSaveMetadataFails(t) ==
    /\ pc[t] = "sf_save"
    /\ Return(t, [loc[t] EXCEPT !.success = Bool(FALSE),
                                !.nMeta = loc[t].nMeta + 1], <<MsgSaveFailed>>)
    /\ UNCHANGED <<requests, disk, bucket, budget, submitted, metaSaved, removeCount>>

\* The thank-you message by the approved argument
ThanksMessage(approved) ==
    IF approved = Bool(TRUE) THEN MsgThanksApproved ELSE MsgThanksRejected

SaveFeedbackReturn(t) ==
    /\ pc[t] = "sf_return"
    /\ Return(t, loc[t], <<ThanksMessage(loc[t].approved)>>)
    /\ UNCHANGED <<requests, disk, bucket, budget, submitted, metaSaved, removeCount>>

----------------------------------------------------------------------------
(* The application: handler threads running process_image and save_feedback *)

Next ==
    \E t \in Threads :
        \/ ProcessImageNoImage(t)
        \/ ProcessImageCreate(t)
        \/ ProcessImageSaveImage(t)
        \/ ProcessImageSaveImageRaises(t)
        \/ ProcessImageUpload(t)
        \/ ProcessImageUploadFails(t)
        \/ ProcessImageAnalyze(t)
        \/ ProcessImageReturn(t)
        \/ SaveFeedbackReject(t)
        \/ SaveFeedbackStart(t)
        \/ SaveFeedbackBuildMetadata(t)
        \/ SaveFeedbackSaveMetadata(t)
        \/ SaveFeedbackSaveMetadataFails(t)
        \/ CleanTempFileCheck(t)
        \/ CleanTempFileRemove(t)
        \/ CleanTempFileRemoveRaises(t)
        \/ SaveFeedbackReturn(t)
        \/ UpdateRequestStep(t)

Spec == Init /\ [][Next]_vars

\* Each worker thread keeps running, and every external call returns
Step(t) ==
    \/ ProcessImageSaveImage(t)
    \/ ProcessImageSaveImageRaises(t)
    \/ ProcessImageUpload(t)
    \/ ProcessImageUploadFails(t)
    \/ ProcessImageAnalyze(t)
    \/ ProcessImageReturn(t)
    \/ SaveFeedbackBuildMetadata(t)
    \/ SaveFeedbackSaveMetadata(t)
    \/ SaveFeedbackSaveMetadataFails(t)
    \/ CleanTempFileCheck(t)
    \/ CleanTempFileRemove(t)
    \/ CleanTempFileRemoveRaises(t)
    \/ SaveFeedbackReturn(t)
    \/ UpdateRequestStep(t)

\* The liveness runs start one invocation fewer
InitFair == Start(MaxCalls - 1)

FairSpec == InitFair /\ [][Next]_vars /\ \A t \in Threads : WF_vars(Step(t))

\* The application plus direct calls of the tracker's operations
NextTracker ==
    \/ Next
    \/ \E t \in Threads : CleanTempFileCall(t)

SpecTracker == Init /\ [][NextTracker]_vars

----------------------------------------------------------------------------
(* The tracker on its own: threads that call create_request, update_request
   and get_request directly, with any id and any subset of the fields *)

\* The ids a direct call is made with
ApiIds == {EmptyId, UnknownId} \cup DOMAIN requests

\* The kwargs a direct update_request call is made with
DirectKwargs ==
    { <<>>,
      << <<"status", "analyzed">> >>,
      << <<"user_note", <<"a note">>>> >>,
      << <<"status", "completed">>,
         <<"llm_description", <<"a text">>>>,
         <<"user_feedback", Bool(TRUE)>> >> }

\* create_request()
CreateRequestCall(t) ==
    /\ CanStart(t)
    /\ budget' = budget - 1
    /\ LET request_id == FreshId
       IN /\ requests' = (request_id :> NewRequest) @@ requests
          /\ removeCount' = (request_id :> 0) @@ removeCount
          /\ Return(t, [IdleLoc EXCEPT !.kind = "create_request",
                                       !.request_id = request_id],
                    IdStr(request_id))
    /\ UNCHANGED <<disk, bucket, submitted, metaSaved>>

\* Mutant: an unknown id yields a default record
GetRequest_Default(reqs, request_id) == <<"dict", request_id>>

\* What get_request returns: the tracker's own dict of the record, or None
GetRequest(reqs, request_id) ==
    IF request_id \in DOMAIN reqs THEN <<"dict", request_id>> ELSE None

\* get_request(request_id)
GetRequestCall(t) ==
    /\ CanStart(t)
    /\ budget' = budget - 1
    /\ \E request_id \in ApiIds :
          /\ Return(t, [IdleLoc EXCEPT !.kind = "get_request",
                                       !.request_id = request_id],
                    GetRequest(requests, request_id))
    /\ UNCHANGED <<requests, disk, bucket, submitted, metaSaved, removeCount>>

\* update_request(request_id, **kwargs): False for an unknown id, else the loop
UpdateRequestCall(t) ==
    /\ CanStart(t)
    /\ budget' = budget - 1
    /\ \E request_id \in ApiIds, kwargs \in DirectKwargs :
          LET l == [IdleLoc EXCEPT !.kind = "update_request",
                                   !.request_id = request_id]
          IN IF request_id \in DOMAIN requests
             THEN UpdateCall(t, l, request_id, kwargs, "ur_return")
             ELSE Return(t, l, Bool(FALSE))
    /\ UNCHANGED <<requests, disk, bucket, submitted, metaSaved, removeCount>>

\* update_request returns True after the loop
UpdateRequestReturn(t) ==
    /\ pc[t] = "ur_return"
    /\ Return(t, loc[t], Bool(TRUE))
    /\ UNCHANGED <<requests, disk, bucket, budget, submitted, metaSaved, removeCount>>

NextApi ==
    \E t \in Threads :
        \/ CreateRequestCall(t)
        \/ GetRequestCall(t)
        \/ UpdateRequestCall(t)
        \/ UpdateRequestStep(t)
        \/ UpdateRequestReturn(t)

InitApi == Start(ApiCalls)

SpecApi == InitApi /\ [][NextApi]_vars

\* The application, with what get_request returned to save_feedback on record
NextSeen ==
    \E t \in Threads :
        \/ ProcessImageNoImage(t)
        \/ ProcessImageCreate(t)
        \/ ProcessImageSaveImage(t)
        \/ ProcessImageSaveImageRaises(t)
        \/ ProcessImageUpload(t)
        \/ ProcessImageUploadFails(t)
        \/ ProcessImageAnalyze(t)
        \/ ProcessImageReturn(t)
        \/ SaveFeedbackReject(t)
        \/ SaveFeedbackStartSeen(t)
        \/ SaveFeedbackBuildMetadata(t)
        \/ SaveFeedbackSaveMetadata(t)
        \/ SaveFeedbackSaveMetadataFails(t)
        \/ CleanTempFileCheck(t)
        \/ CleanTempFileRemove(t)
        \/ CleanTempFileRemoveRaises(t)
        \/ SaveFeedbackReturn(t)
        \/ UpdateRequestStep(t)

SpecSeen == Init /\ [][NextSeen]_vars

----------------------------------------------------------------------------
(* Properties *)

Ids == DOMAIN requests

\* The lifecycle of section 4.3, in order
StatusChain ==
    <<"created", "image_received", "uploaded_to_cloud", "analyzed",
      "feedback_received", "completed">>

Rank(status) == CHOOSE i \in 1..Len(StatusChain) : StatusChain[i] = status

\* The files on disk that belong to record id (its name carries the id)
FilesOf(id) == {p \in DOMAIN disk : p[3] = id}

\* C1: every change of a record's status moves exactly one step forward
\* along the chain; status never moves backward, never skips a state and
\* never leaves completed.
C1_StatusStepsForward ==
    [][\A id \in Ids :
          requests'[id].status # requests[id].status
              => Rank(requests'[id].status) = Rank(requests[id].status) + 1]_vars

\* C2: a record whose status is completed has had its metadata written to
\* remote storage and has no temp file left on disk.
C2_CompletedIsDurableAndClean ==
    \A id \in Ids :
        requests[id].status = "completed"
            => id \in metaSaved /\ FilesOf(id) = {}

\* Thread t reads a record of the tracker in this step: the get_request that
\* opens save_feedback or clean_temp_file, a direct get_request, or
\* save_feedback reading the dict it holds for the metadata and the write
ReadsRecord(t) ==
    \/ /\ pc[t] \in {"sf_metadata", "sf_save", "clean_temp_file"}
       /\ pc'[t] # pc[t]
    \/ /\ CanStart(t)
       /\ budget' < budget
       /\ loc'[t].kind \in {"save_feedback", "get_request"}
       /\ loc'[t].request_id \in Ids

\* C3: no read of a record by one handler runs while another handler has
\* applied only some of the fields of one update_request call to it.
C3_NoPartialUpdateObserved ==
    [][\A t \in Threads :
          ReadsRecord(t) => ~MidUpdate(t, loc'[t].request_id)]_vars

\* C5: once cloud_path or llm_description of a record is non-empty, no step
\* changes its value.
C5_WriteOnce ==
    [][\A id \in Ids :
          /\ ~Falsy(requests[id].cloud_path)
                => requests'[id].cloud_path = requests[id].cloud_path
          /\ ~Falsy(requests[id].llm_description)
                => requests'[id].llm_description = requests[id].llm_description]_vars

\* C5 witness: a record with both fields set has gone on to completed
C5_Witness ==
    \E id \in Ids :
        /\ requests[id].status = "completed"
        /\ ~Falsy(requests[id].cloud_path)
        /\ ~Falsy(requests[id].llm_description)

\* C6: once a record's feedback is set, no step changes it, and once its
\* note is set, no step changes the note.
C6_FeedbackSetOnce ==
    [][\A id \in Ids :
          /\ requests[id].user_feedback # None
                => requests'[id].user_feedback = requests[id].user_feedback
          /\ requests[id].user_note # None
                => requests'[id].user_note = requests[id].user_note]_vars

\* C7: a record whose feedback is set has a non-empty description.
C7_FeedbackImpliesDescription ==
    \A id \in Ids :
        requests[id].user_feedback # None => ~Falsy(requests[id].llm_description)

\* Every field of record id comes from the submission that created it
OwnFields(id) ==
    LET r == requests[id]
    IN /\ r.temp_path # None
            => /\ \E ts \in Timestamps : r.temp_path = TempPathOf(NewFilename(ts, id))
               /\ r.temp_path \in DOMAIN disk => disk[r.temp_path] = submitted[id]
       /\ r.cloud_path # None
            => /\ \E ts \in Timestamps : r.cloud_path = NewFilename(ts, id)
               /\ r.cloud_path \in DOMAIN bucket
               /\ bucket[r.cloud_path] = submitted[id]
       /\ r.llm_description # None
            => r.llm_description = DescriptionOf(submitted[id])

CleanReturns(t) ==
    /\ pc[t] \in {"clean_temp_file", "os_remove"}
    /\ pc'[t] \notin {"clean_temp_file", "os_remove"}

HasTempPath(id) == id \in Ids /\ ~Falsy(requests[id].temp_path)

\* C4 as stated: on a record whose temp_path is set every clean_temp_file
\* call returns success, the file is removed at most once, and a call made
\* after the effective one changes nothing.
C4_Original ==
    [][\A t \in Threads :
          (CleanReturns(t) /\ HasTempPath(loc[t].request_id))
              => /\ loc'[t].cleanRet = Bool(TRUE)
                 /\ removeCount'[loc[t].request_id] <= 1
                 /\ (pc[t] = "clean_temp_file" /\ removeCount[loc[t].request_id] >= 1)
                       => disk' = disk /\ requests' = requests]_vars

\* C4 amended: on a record whose temp_path is set, the file is removed at
\* most once; a call returns failure only when os.remove itself raised; and a
\* call that runs after the file was removed returns success at once and
\* changes neither the disk nor any record.
C4_Idempotent ==
    [][\A t \in Threads :
          /\ (CleanReturns(t) /\ HasTempPath(loc[t].request_id))
                => /\ removeCount'[loc[t].request_id] <= 1
                   /\ loc'[t].cleanRet = Bool(FALSE)
                         => pc[t] = "os_remove" /\ disk' = disk
          /\ ( /\ pc[t] = "clean_temp_file"
               /\ pc'[t] # "clean_temp_file"
               /\ HasTempPath(loc[t].request_id)
               /\ removeCount[loc[t].request_id] >= 1 )
                => /\ pc'[t] # "os_remove"
                   /\ loc'[t].cleanRet = Bool(TRUE)
                   /\ loc'[t].nRemove = 0
                   /\ disk' = disk /\ requests' = requests]_vars

\* C4 witness: a second direct clean_temp_file call on a record whose file an
\* earlier call removed has returned success without calling os.remove
C4_Witness ==
    \E t \in Threads :
        /\ pc[t] = "done"
        /\ loc[t].kind = "clean_temp_file"
        /\ HasTempPath(loc[t].request_id)
        /\ removeCount[loc[t].request_id] = 1
        /\ loc[t].nRemove = 0
        /\ loc[t].result = Bool(TRUE)

\* process_image of thread t returns a non-empty id in this step
ReturnsId(t) ==
    /\ ~Free(t)
    /\ pc'[t] = "done"
    /\ loc'[t].kind = "process_image"
    /\ loc'[t].result[1] # None

\* What holds of the record when process_image returns (id, description)
ReturnedRecord(t, statuses) ==
    LET id == loc[t].request_id
        description == loc'[t].result[2]
        r == requests'[id]
    IN /\ loc'[t].result[1] = IdStr(id)
       /\ ~Falsy(description)
       /\ description = DescriptionOf(submitted[id])
       /\ r.llm_description = description
       /\ ~Falsy(r.temp_path)
       /\ ~Falsy(r.cloud_path)
       /\ r.cloud_path \in DOMAIN bucket
       /\ r.status \in statuses
       /\ loc'[t].nUpload = 1
       /\ loc'[t].nDescribe = 1

\* A process_image call whose save, upload and describe steps have succeeded
AllStepsSucceeded(t) ==
    /\ loc[t].kind = "process_image"
    /\ ~Free(t)
    /\ ~Falsy(loc[t].description)

ReturnedWithId(t) ==
    /\ pc[t] = "done"
    /\ loc[t].kind = "process_image"
    /\ loc[t].result[1] # None

\* C9 as stated: when every step succeeds the call eventually returns
\* (id, description) with the record at analyzed and its fields set, and a
\* non-empty id is returned in no other case.
C9_Original ==
    /\ [][\A t \in Threads : ReturnsId(t) => ReturnedRecord(t, {"analyzed"})]_vars
    /\ \A t \in Threads : AllStepsSucceeded(t) ~> ReturnedWithId(t)

\* C9 amended: as stated, except that at the return the record is at
\* analyzed or, when a save_feedback call on the same id has run meanwhile,
\* at feedback_received or completed.
C9_ProcessImageSuccess ==
    /\ [][\A t \in Threads :
             ReturnsId(t)
                 => ReturnedRecord(t, {"analyzed", "feedback_received", "completed"})]_vars
    /\ \A t \in Threads : AllStepsSucceeded(t) ~> ReturnedWithId(t)

\* C9 witness: a call has returned an id while its record is at analyzed
C9_Witness ==
    \E t \in Threads :
        /\ ReturnedWithId(t)
        /\ requests[loc[t].request_id].status = "analyzed"
        /\ requests[loc[t].request_id].llm_description = loc[t].result[2]

\* C10: when the upload fails, process_image returns no id and the
\* cloud-storage message, the record is at image_received with cloud_path
\* empty, its temp file is on disk, and the call has issued no describe call.
C10_UploadFailure ==
    [][\A t \in Threads :
          (pc[t] = "pi_upload" /\ pc'[t] = "done")
              => LET r == requests'[loc[t].request_id]
                 IN /\ loc'[t].result = <<None, <<MsgUploadFailed>>>>
                    /\ r.status = "image_received"
                    /\ r.cloud_path = None
                    /\ r.temp_path \in DOMAIN disk'
                    /\ loc'[t].nDescribe = 0]_vars

\* C11: when the describe call fails or yields an empty text, process_image
\* returns no id and the failed-to-analyze message, and the record is at
\* uploaded_to_cloud with its description still empty.
C11_AnalyzeFailure ==
    [][\A t \in Threads :
          (pc[t] = "pi_analyze" /\ pc'[t] = "done")
              => LET r == requests'[loc[t].request_id]
                 IN /\ loc'[t].result = <<None, <<MsgAnalyzeFailed>>>>
                    /\ r.status = "uploaded_to_cloud"
                    /\ Falsy(r.llm_description)]_vars

\* A save_feedback call of thread t that found its record at analyzed returns
\* the thank-you message in this step
FeedbackSaved(t) ==
    /\ pc[t] = "sf_return"
    /\ pc'[t] = "done"
    /\ loc[t].seen.status = "analyzed"

\* C12: save_feedback(id, approved, note) on a record at analyzed whose
\* metadata write succeeds ends with the record at completed, the record's
\* feedback and note equal to the arguments, the object
\* "<cloud_key>.metadata.json" stored with approved (a boolean), note and
\* description equal to the arguments and the record's description, and the
\* temp file absent from disk.
C12_FeedbackSaved ==
    [][\A t \in Threads :
          FeedbackSaved(t)
              => LET id == loc[t].request_id
                     r == requests'[id]
                     name == r.cloud_path \o <<"metadata.json">>
                 IN /\ r.status = "completed"
                    /\ r.user_feedback = loc[t].approved
                    /\ r.user_note = loc[t].note
                    /\ name \in DOMAIN bucket'
                    /\ bucket'[name].approved = JsonValue(loc[t].approved)
                    /\ bucket'[name].approved.type = "boolean"
                    /\ bucket'[name].note = JsonValue(loc[t].note)
                    /\ bucket'[name].description = JsonValue(r.llm_description)
                    /\ r.temp_path \notin DOMAIN disk']_vars

\* The metadata write of thread t's save_feedback call fails in this step
MetadataWriteFails(t) ==
    /\ pc[t] = "sf_save"
    /\ pc'[t] # "sf_save"
    /\ loc'[t].success # Bool(TRUE)

\* C13 as stated: when the metadata write fails, save_feedback returns the
\* failed-to-save message, the record is at feedback_received and not at
\* completed, its temp file has not been deleted, and the call has made no
\* second metadata write.
C13_Original ==
    [][\A t \in Threads :
          MetadataWriteFails(t)
              => LET id == loc[t].request_id
                 IN /\ pc'[t] = "done"
                    /\ loc'[t].result = <<MsgSaveFailed>>
                    /\ requests'[id].status = "feedback_received"
                    /\ removeCount'[id] = 0
                    /\ loc'[t].nMeta = 1]_vars

\* C13 amended: when the metadata write fails, save_feedback returns the
\* failed-to-save message at once; the call has made that one metadata write
\* and no other, has not called clean_temp_file or os.remove, and the
\* failing step changes no record, no file and no stored object. What the
\* call leaves behind is then the doing of other calls on the same id.
C13_MetadataFailure ==
    [][\A t \in Threads :
          MetadataWriteFails(t)
              => /\ pc'[t] = "done"
                 /\ loc'[t].result = <<MsgSaveFailed>>
                 /\ loc'[t].nMeta = 1
                 /\ loc'[t].nRemove = 0
                 /\ loc'[t].cleanRet = None
                 /\ requests' = requests
                 /\ disk' = disk]_vars

\* C13 witness: a call has returned the failed-to-save message and its record
\* is at feedback_received with the temp file on disk
C13_Witness ==
    \E t \in Threads :
        /\ pc[t] = "done"
        /\ loc[t].kind = "save_feedback"
        /\ loc[t].result = <<MsgSaveFailed>>
        /\ requests[loc[t].request_id].status = "feedback_received"
        /\ requests[loc[t].request_id].temp_path \in DOMAIN disk

\* Thread t starts a save_feedback call in this step
SaveFeedbackCalled(t) ==
    /\ CanStart(t)
    /\ budget' < budget
    /\ loc'[t].kind = "save_feedback"

\* C14: save_feedback with an empty id returns the no-active-request message
\* and with an id unknown to the tracker the invalid-request-id message; the
\* call writes nothing to storage, deletes no file, creates no record and
\* leaves every record unchanged.
C14_RejectedFeedback ==
    [][\A t \in Threads :
          (SaveFeedbackCalled(t) /\ loc'[t].request_id \notin Ids)
              => /\ pc'[t] = "done"
                 /\ loc'[t].result =
                       IF loc'[t].request_id = EmptyId THEN <<MsgNoActive>>
                                                       ELSE <<MsgInvalidId>>
                 /\ loc'[t].nMeta = 0
                 /\ loc'[t].nRemove = 0
                 /\ requests' = requests
                 /\ bucket' = bucket
                 /\ disk' = disk]_vars

\* C14 witness: both messages have been returned while the tracker holds a
\* record with a temp file on disk and an object in the bucket
C14_Witness ==
    /\ \E t \in Threads :
          /\ pc[t] = "done" /\ loc[t].kind = "save_feedback"
          /\ loc[t].request_id = EmptyId /\ loc[t].result = <<MsgNoActive>>
    /\ \E t \in Threads :
          /\ pc[t] = "done" /\ loc[t].kind = "save_feedback"
          /\ loc[t].request_id = UnknownId /\ loc[t].result = <<MsgInvalidId>>
    /\ \E id \in Ids :
          /\ requests[id].temp_path \in DOMAIN disk
          /\ requests[id].cloud_path \in DOMAIN bucket

\* C15: clean_temp_file on an existing record whose temp_path was never set
\* returns success as a no-op, not failure, and deletes nothing.
C15_CleanWithoutTempPath ==
    [][\A t \in Threads :
          ( /\ CleanReturns(t)
            /\ loc[t].request_id \in Ids
            /\ requests[loc[t].request_id].temp_path = None )
              => /\ loc'[t].cleanRet = Bool(TRUE)
                 /\ disk' = disk]_vars

\* The file that thread t's os.remove call is about to delete is gone
\* (another call removed it after t's existence test)
FileVanished(t) ==
    /\ pc[t] = "os_remove"
    /\ loc[t].temp_path \notin DOMAIN disk

\* C16: clean_temp_file never raises, and a call that finds its file gone
\* between its existence test and its removal treats the missing file as
\* already clean and returns success.
C16_CleanRaceIsBenign ==
    [][\A t \in Threads :
          /\ CleanReturns(t) => pc'[t] # "raised"
          /\ (CleanReturns(t) /\ FileVanished(t))
                => loc'[t].cleanRet = Bool(TRUE)]_vars

Fields == DOMAIN NewRequest

\* Thread t's update_request call makes one store of its kwargs loop in this
\* step
UpdateStores(t) ==
    /\ pc[t] = "update_request"
    /\ loc'[t].applied = loc[t].applied + 1

\* C17: an update_request call changes only the fields it names, of the
\* record it names: every other field of that record keeps its value and no
\* other record is modified, added or removed.
C17_UpdateFrame ==
    [][\A t \in Threads :
          UpdateStores(t)
              => /\ DOMAIN requests' = DOMAIN requests
                 /\ \A id \in Ids, f \in Fields :
                       (id # loc[t].request_id \/ f # Head(loc[t].kwargs)[1])
                           => requests'[id][f] = requests[id][f]]_vars

\* C17 witness: a direct call naming only the note has returned True on a
\* record that another call had moved to completed with a description, and
\* a second record is still as created
C17_Witness ==
    \E t \in Threads, id \in Ids :
        /\ pc[t] = "done"
        /\ loc[t].kind = "update_request"
        /\ loc[t].result = Bool(TRUE)
        /\ requests[loc[t].request_id].user_note = <<"a note">>
        /\ requests[loc[t].request_id].status = "completed"
        /\ requests[loc[t].request_id].llm_description = <<"a text">>
        /\ id # loc[t].request_id
        /\ requests[id] = NewRequest

\* Thread t starts a direct call of operation kind with an id the tracker
\* has not issued
CalledWithUnknownId(t, kind) ==
    /\ CanStart(t)
    /\ budget' < budget
    /\ loc'[t].kind = kind
    /\ loc'[t].request_id \notin Ids

\* C18: get_request on an id that create_request never returned reports
\* not-found and neither returns nor creates a default record;
\* update_request on such an id reports failure and leaves the set of
\* records unchanged.
C18_UnknownId ==
    [][\A t \in Threads :
          /\ CalledWithUnknownId(t, "get_request")
                => /\ pc'[t] = "done"
                   /\ loc'[t].result = None
                   /\ requests' = requests
          /\ CalledWithUnknownId(t, "update_request")
                => /\ pc'[t] = "done"
                   /\ loc'[t].result = Bool(FALSE)
                   /\ requests' = requests]_vars

\* C18 witness: with a record in the tracker, a get_request and an
\* update_request call on the unknown id have returned None and False
C18_Witness ==
    /\ Ids # {}
    /\ \E t \in Threads :
          /\ pc[t] = "done" /\ loc[t].kind = "get_request"
          /\ loc[t].request_id = UnknownId /\ loc[t].result = None
    /\ \E t \in Threads :
          /\ pc[t] = "done" /\ loc[t].kind = "update_request"
          /\ loc[t].request_id = UnknownId /\ loc[t].result = Bool(FALSE)

\* Thread t's call runs create_request in this step (process_image does when
\* it is given an image)
Creates(t) ==
    /\ CanStart(t)
    /\ budget' < budget
    /\ pc'[t] = "pi_save" \/ loc'[t].kind = "create_request"

\* C19: every create_request call returns an id that no earlier call
\* returned and adds exactly one record, in status created with all optional
\* fields empty, leaving the others as they are; no step of any operation
\* removes a record or puts an existing one back to its initial state.
C19_CreateIsFresh ==
    [][/\ \A t \in Threads :
             Creates(t)
                 => LET id == loc'[t].request_id
                    IN /\ id \notin Ids
                       /\ DOMAIN requests' = Ids \cup {id}
                       /\ requests'[id] = NewRequest
                       /\ \A i \in Ids : requests'[i] = requests[i]
       /\ (\A t \in Threads : ~Creates(t)) => DOMAIN requests' = Ids
       /\ \A i \in Ids :
             /\ i \in DOMAIN requests'
             /\ requests'[i] = NewRequest => requests[i] = NewRequest]_vars

\* C19 witness: two process_image calls have each created a record and are
\* still running, and the record of an earlier call is at analyzed
C19_Witness ==
    /\ Cardinality(Ids) = 3
    /\ \E id \in Ids : requests[id].status = "analyzed"
    /\ \E id \in Ids : requests[id] = NewRequest
    /\ \E t, u \in Threads :
          /\ t # u
          /\ loc[t].kind = "process_image" /\ ~Free(t)
          /\ loc[u].kind = "process_image" /\ ~Free(u)
          /\ loc[t].request_id # loc[u].request_id

\* Thread t's save_feedback call holds the dict that get_request returned
\* and has reads of it still to make (the description for the metadata, the
\* cloud_path for the write)
HoldsRequest(t) ==
    /\ loc[t].kind = "save_feedback"
    /\ \/ pc[t] \in {"sf_metadata", "sf_save"}
       \/ pc[t] = "update_request" /\ loc[t].ret = "sf_metadata"

\* C20: what get_request returned is a snapshot: no update made after the
\* get returned changes it, so the record save_feedback read at its start
\* shows neither its own feedback update nor a concurrent update.
C20_GetReturnsSnapshot ==
    \A t \in Threads :
        HoldsRequest(t) => requests[loc[t].request_id] = loc[t].seen

\* C21: whichever external step of process_image or save_feedback fails,
\* the entry point returns a message or its success data; no invocation
\* ends with an exception leaving the entry point.
C21_NoExceptionEscapes ==
    \A t \in Threads : pc[t] # "raised"

\* Thread t's invocation of handler kind has returned result
ReturnedMessage(t, kind, result) ==
    /\ pc[t] = "done"
    /\ loc[t].kind = kind
    /\ loc[t].result = result

\* C22: no invocation repeats an external call: at most one upload, one
\* describe call and one metadata write each, and an invocation that
\* returns after a failed external call has issued no call after it.
C22_NoRetries ==
    \A t \in Threads :
        /\ loc[t].nUpload <= 1
        /\ loc[t].nDescribe <= 1
        /\ loc[t].nMeta <= 1
        /\ loc[t].nRemove <= 1
        /\ ReturnedMessage(t, "process_image", <<None, <<MsgUploadFailed>>>>)
              => loc[t].nUpload = 1 /\ loc[t].nDescribe = 0
        /\ ReturnedMessage(t, "process_image", <<None, <<MsgAnalyzeFailed>>>>)
              => loc[t].nUpload = 1 /\ loc[t].nDescribe = 1
        /\ ReturnedMessage(t, "save_feedback", <<MsgSaveFailed>>)
              => loc[t].nMeta = 1 /\ loc[t].nRemove = 0
        /\ pc[t] = "raised"
              => loc[t].nUpload = 0 /\ loc[t].nDescribe = 0

\* C22 witness: a process_image call has returned after its describe call
\* failed and a save_feedback call has returned after its write failed
C22_Witness ==
    \E t, u \in Threads :
        /\ ReturnedMessage(t, "process_image", <<None, <<MsgAnalyzeFailed>>>>)
        /\ loc[t].nUpload = 1 /\ loc[t].nDescribe = 1
        /\ ReturnedMessage(u, "save_feedback", <<MsgSaveFailed>>)
        /\ loc[u].nMeta = 1

\* C23: in every reachable state the status of a record implies its fields:
\* temp_path from image_received on, cloud_path from uploaded_to_cloud on,
\* the description from analyzed on, the feedback from feedback_received on;
\* and a record at created has every optional field empty.
C23_StatusImpliesFields ==
    \A id \in Ids :
        LET r == requests[id]
            k == Rank(r.status)
        IN /\ k >= Rank("image_received") => ~Falsy(r.temp_path)
           /\ k >= Rank("uploaded_to_cloud") => ~Falsy(r.cloud_path)
           /\ k >= Rank("analyzed") => ~Falsy(r.llm_description)
           /\ k >= Rank("feedback_received") => r.user_feedback # None
           /\ k = Rank("created") => r = NewRequest

\* Thread t's save_feedback call has returned its thank-you message
Thanked(t) ==
    /\ pc[t] = "done"
    /\ loc[t].kind = "save_feedback"
    /\ loc[t].result = <<ThanksMessage(loc[t].approved)>>

\* C24: once two save_feedback calls on the same id, run by the two worker
\* threads on a record that process_image has uploaded and described, have
\* both returned, the approved and note values of the stored metadata object
\* equal the record's feedback and note, and the record is at completed.
C24_OverlappingFeedback ==
    \A t, u \in Threads :
        ( /\ t # u
          /\ Thanked(t) /\ Thanked(u)
          /\ loc[t].request_id = loc[u].request_id
          /\ ~Falsy(requests[loc[t].request_id].cloud_path)
          /\ ~Falsy(requests[loc[t].request_id].llm_description) )
            => LET r == requests[loc[t].request_id]
                   name == MetadataObjectName(r.cloud_path)
               IN /\ r.status = "completed"
                  /\ name \in DOMAIN bucket
                  /\ bucket[name].approved = JsonValue(r.user_feedback)
                  /\ bucket[name].note = JsonValue(r.user_note)

\* The names of the metadata objects in the bucket
MetadataNames == {name \in DOMAIN bucket : name[Len(name)] = "metadata.json"}

\* C25: every metadata object in storage is named "<K>.metadata.json" for a
\* key K under which an image is stored, and its description is a non-empty
\* text.
C25_MetadataBelongsToUpload ==
    \A name \in MetadataNames :
        /\ SubSeq(name, 1, Len(name) - 1) \in DOMAIN bucket \ MetadataNames
        /\ bucket[name].description.type = "string"
        /\ ~Falsy(bucket[name].description.value)

\* Thread t's process_image call is about to issue its upload or its
\* describe call, both of which read the temp file
AboutToReadTempFile(t) ==
    /\ loc[t].kind = "process_image"
    /\ \/ pc[t] \in {"pi_upload", "pi_analyze"}
       \/ pc[t] = "update_request" /\ loc[t].ret \in {"pi_upload", "pi_analyze"}

\* C26: the temp file of a record is on disk from the moment its temp_path
\* is recorded until a metadata write for the record has succeeded; in
\* particular it is on disk whenever the upload or the describe call of the
\* record's process_image call is issued.
C26_TempFileLifetime ==
    /\ \A id \in Ids :
          (~Falsy(requests[id].temp_path) /\ id \notin metaSaved)
              => requests[id].temp_path \in DOMAIN disk
    /\ \A t \in Threads :
          AboutToReadTempFile(t) => loc[t].temp_path \in DOMAIN disk

====
